---- MODULE Spec2Model ----
(***************************************************************************)
(* Model of package token (src/token.go): a token bucket whose number of   *)
(* tokens is adjusted at run time by a manager goroutine.                  *)
(*                                                                         *)
(* Goroutines: the manager started by NewToken and a fixed set of callers, *)
(* each of which calls Take, Release and SetCapacity one call at a time.   *)
(* Channels follow the Go runtime: t.buf is a buffered channel of          *)
(* struct{} (only the number of markers matters), t.cap is unbuffered, the *)
(* wait queues are FIFO, a select whose cases are ready picks any ready    *)
(* case, and a goroutine parked in a select is committed to the case of    *)
(* the first event that wakes it.                                          *)
(***************************************************************************)
EXTENDS Integers, Sequences, FiniteSets, TLC

\* Largest maxCap that NewToken is called with.
MaxCap == 2

\* The caller goroutines.
Callers == {1, 2}

\* Identity of the manager goroutine in the wait queues of t.buf.
Mgr == 0

VARIABLES
    newErr,       \* TRUE iff NewToken returned (nil, error)
    maxCapacity,  \* t.maxCapacity
    buf,          \* number of markers held in the buffer of t.buf
    length,       \* t.length
    fired,        \* t.ctx.Done() is closed
    target,       \* manager local: target
    in,           \* manager local: in  ("nil" or "buf")
    out,          \* manager local: out ("nil" or "buf")
    mgr,          \* manager position: "none", "select", "parked", "woken", "exit"
    mgrCase,      \* the select case a parked manager was woken with
    mgrRecv,      \* the value handed to a parked manager on t.cap
    bufRecvq,     \* goroutines parked receiving from t.buf, in arrival order
    bufSendq,     \* goroutines parked sending to t.buf, in arrival order
    capSendq,     \* callers parked sending to t.cap, in arrival order
    callers,      \* per caller: idle, or the call it is parked in
    ev,           \* history: the call made by the last step, its result, and the
                  \* results of the parked calls the step woke
    checkedOut,   \* history: successful Takes minus successful Releases
    snap          \* history: the last accepted target and the state at acceptance

vars == <<newErr, maxCapacity, buf, length, fired, target, in, out,
          mgr, mgrCase, mgrRecv, bufRecvq, bufSendq, capSendq, callers,
          ev, checkedOut, snap>>

----------------------------------------------------------------------------
\* Values

Idle == [st |-> "idle", op |-> "none", arg |-> 0]

\* A call parked in its select (arg is the capacity a SetCapacity is sending).
Parked(o, a) == [st |-> "parked", op |-> o, arg |-> a]

Remove(q, x) == SelectSeq(q, LAMBDA y : y # x)

\* History: no call was made by the last step.
NoCall == [op |-> "none", args |-> <<>>, cx |-> FALSE, ret |-> "none"]

\* History: a caller ran call o with arguments args, its context cancelled
\* iff cx, and the call returned r ("nil", "ctx", "closed", "invalid") or
\* parked in its select ("parked").
Call(o, args, cx, r) == [op |-> o, args |-> args, cx |-> cx, ret |-> r]

\* History: the parked call o of a caller was woken by the last step and
\* returned r.
Woken(o, r) == [op |-> o, ret |-> r]

\* History: no parked call was woken by the last step.
NoRets == [c \in Callers |-> Woken("none", "none")]

NoEv == [call |-> NoCall, rets |-> NoRets]

\* History: the snapshot is void once a Release has succeeded after it.
Dirty(s) == [s EXCEPT !.L = 0, !.avail = 0, !.co = 0, !.clean = FALSE]

\* History: a SetCapacity(v) is accepted in a state with the given counters.
Accepted(v, len, b, co) ==
    [c |-> v, L |-> len, avail |-> b, co |-> co, clean |-> TRUE, accepted |-> TRUE]

----------------------------------------------------------------------------
\* NewToken

\* Faulty variant: the check that len does not exceed maxCap is missing.
NewTokenFailsNoLenCheck(maxCap, len) == maxCap <= 0 \/ len < 0

NewTokenFails(maxCap, len) == maxCap <= 0 \/ len < 0 \/ maxCap < len

\* Faulty variant: the loop runs while i <= t.length.
PrefillOneMore(len) == len + 1

\* for i := 0; i < t.length; i++ { t.buf <- struct{}{} }: the number of
\* markers the loop puts into the buffer.
Prefill(len) == len

NewToken(maxCap, len) ==
    /\ fired = FALSE
    /\ mgrCase = "none"
    /\ mgrRecv = 0
    /\ bufRecvq = <<>>
    /\ bufSendq = <<>>
    /\ capSendq = <<>>
    /\ callers = [c \in Callers |-> Idle]
    /\ ev = [call |-> Call("NewToken", <<maxCap, len>>, FALSE,
                            IF NewTokenFails(maxCap, len) THEN "invalid" ELSE "nil"),
             rets |-> NoRets]
    /\ checkedOut = 0
    /\ in = "nil"
    /\ out = "nil"
    /\ IF NewTokenFails(maxCap, len)
       THEN /\ newErr = TRUE
            /\ maxCapacity = 0
            /\ buf = 0
            /\ length = 0
            /\ target = 0
            /\ mgr = "none"
            /\ snap = [c |-> 0, L |-> 0, avail |-> 0, co |-> 0,
                       clean |-> FALSE, accepted |-> FALSE]
       ELSE /\ newErr = FALSE
            /\ maxCapacity = maxCap
            /\ buf = Prefill(len)
            /\ length = len
            /\ target = len
            /\ mgr = "select"
            /\ snap = [c |-> len, L |-> len, avail |-> len, co |-> 0,
                       clean |-> TRUE, accepted |-> FALSE]

Init == \E maxCap \in -1..MaxCap, len \in -1..(MaxCap + 1) : NewToken(maxCap, len)

----------------------------------------------------------------------------
\* The channel t.buf

\* The part of the state a channel operation on t.buf can change; rets are
\* the results of the parked calls woken by the step so far.
Cur == [buf |-> buf, recvq |-> bufRecvq, sendq |-> bufSendq, callers |-> callers,
        mgr |-> mgr, mgrCase |-> mgrCase, checkedOut |-> checkedOut, snap |-> snap,
        rets |-> NoRets]

Apply(S, call) ==
    /\ buf' = S.buf
    /\ bufRecvq' = S.recvq
    /\ bufSendq' = S.sendq
    /\ callers' = S.callers
    /\ mgr' = S.mgr
    /\ mgrCase' = S.mgrCase
    /\ checkedOut' = S.checkedOut
    /\ snap' = S.snap
    /\ ev' = [call |-> call, rets |-> S.rets]

\* History: a Take / a Release returns nil.
TakeOk(S) == [S EXCEPT !.checkedOut = @ + 1]

ReleaseOk(S) == [S EXCEPT !.checkedOut = @ - 1, !.snap = Dirty(@)]

\* The parked call of caller w is woken and returns r.
Wake(S, w, r) == [S EXCEPT !.callers[w] = Idle, !.rets[w] = Woken(S.callers[w].op, r)]

\* A send on t.buf can proceed: a receiver is parked or the buffer has room.
BufSendReady == bufRecvq # <<>> \/ buf < maxCapacity

\* Faulty variant: a receive from t.buf proceeds whether or not a marker is
\* there.
BufRecvReadyAlways == TRUE

\* A receive from t.buf can proceed: the buffer holds a marker (a parked
\* sender implies a full buffer).
BufRecvReady == bufSendq # <<>> \/ buf > 0

\* Faulty variant: a send with no receiver parked completes without a marker
\* entering the buffer.
ChanSendLosesMarker(S) ==
    IF S.recvq # <<>>
    THEN LET w == Head(S.recvq)
             S1 == [S EXCEPT !.recvq = Tail(@)]
         IN  IF w = Mgr
             THEN [S1 EXCEPT !.mgr = "woken", !.mgrCase = "out"]
             ELSE TakeOk(Wake(S1, w, "nil"))
    ELSE S

\* t.buf <- struct{}{}: the marker goes to the first parked receiver, which
\* is woken with its receive case, or else into the buffer.
ChanSend(S) ==
    IF S.recvq # <<>>
    THEN LET w == Head(S.recvq)
             S1 == [S EXCEPT !.recvq = Tail(@)]
         IN  IF w = Mgr
             THEN [S1 EXCEPT !.mgr = "woken", !.mgrCase = "out"]
             ELSE TakeOk(Wake(S1, w, "nil"))
    ELSE [S EXCEPT !.buf = @ + 1]

\* Faulty variant: a receive from a buffer with no parked sender leaves the
\* marker in the buffer.
ChanRecvKeepsMarker(S) ==
    IF S.sendq # <<>>
    THEN LET w == Head(S.sendq)
             S1 == [S EXCEPT !.sendq = Tail(@)]
         IN  IF w = Mgr
             THEN [S1 EXCEPT !.mgr = "woken", !.mgrCase = "in"]
             ELSE ReleaseOk(Wake(S1, w, "nil"))
    ELSE S

\* <-t.buf: a marker leaves the buffer; if a sender is parked (the buffer is
\* full) its marker takes the freed slot and it is woken with its send case.
ChanRecv(S) ==
    IF S.sendq # <<>>
    THEN LET w == Head(S.sendq)
             S1 == [S EXCEPT !.sendq = Tail(@)]
         IN  IF w = Mgr
             THEN [S1 EXCEPT !.mgr = "woken", !.mgrCase = "in"]
             ELSE ReleaseOk(Wake(S1, w, "nil"))
    ELSE [S EXCEPT !.buf = @ - 1]

----------------------------------------------------------------------------
\* Take

\* The cases of Take's select that are ready for a caller whose context is
\* cancelled iff cx.
TakeReady(cx) ==
    (IF cx THEN {"ctx"} ELSE {})
    \cup (IF fired THEN {"closed"} ELSE {})
    \cup (IF BufRecvReady THEN {"buf"} ELSE {})

\* Faulty variant: a Take that returns a cancellation cause has received a
\* marker all the same whenever one was there.
TakeDropsMarker(c, cx) ==
    /\ ~newErr
    /\ callers[c].st = "idle"
    /\ IF TakeReady(cx) = {}
       THEN Apply([Cur EXCEPT !.callers[c] = Parked("Take", 0),
                              !.recvq = Append(@, c)],
                  Call("Take", <<>>, cx, "parked"))
       ELSE \E k \in TakeReady(cx) :
               IF k = "buf"
               THEN Apply(ChanRecv(TakeOk(Cur)), Call("Take", <<>>, cx, "nil"))
               ELSE IF BufRecvReady
               THEN Apply(ChanRecv(Cur), Call("Take", <<>>, cx, k))
               ELSE Apply(Cur, Call("Take", <<>>, cx, k))
    /\ UNCHANGED <<newErr, maxCapacity, length, fired, target, in, out,
                   mgrRecv, capSendq>>

\* Faulty variant: a Take that returns nil counts the token out of t.length.
TakeLowersLength(c, cx) ==
    /\ ~newErr
    /\ callers[c].st = "idle"
    /\ IF TakeReady(cx) = {}
       THEN /\ Apply([Cur EXCEPT !.callers[c] = Parked("Take", 0),
                                 !.recvq = Append(@, c)],
                     Call("Take", <<>>, cx, "parked"))
            /\ length' = length
       ELSE \E k \in TakeReady(cx) :
               IF k = "buf"
               THEN /\ Apply(ChanRecv(TakeOk(Cur)), Call("Take", <<>>, cx, "nil"))
                    /\ length' = length - 1
               ELSE /\ Apply(Cur, Call("Take", <<>>, cx, k))
                    /\ length' = length
    /\ UNCHANGED <<newErr, maxCapacity, fired, target, in, out,
                   mgrRecv, capSendq>>

Take(c, cx) ==
    /\ ~newErr
    /\ callers[c].st = "idle"
    /\ IF TakeReady(cx) = {}
       THEN Apply([Cur EXCEPT !.callers[c] = Parked("Take", 0),
                              !.recvq = Append(@, c)],
                  Call("Take", <<>>, cx, "parked"))
       ELSE \E k \in TakeReady(cx) :
               IF k = "buf"
               THEN Apply(ChanRecv(TakeOk(Cur)), Call("Take", <<>>, cx, "nil"))
               ELSE Apply(Cur, Call("Take", <<>>, cx, k))
    /\ UNCHANGED <<newErr, maxCapacity, length, fired, target, in, out,
                   mgrRecv, capSendq>>

----------------------------------------------------------------------------
\* Release

ReleaseReady(cx) ==
    (IF cx THEN {"ctx"} ELSE {})
    \cup (IF fired THEN {"closed"} ELSE {})
    \cup (IF BufSendReady THEN {"buf"} ELSE {})

Release(c, cx) ==
    /\ ~newErr
    /\ callers[c].st = "idle"
    /\ IF ReleaseReady(cx) = {}
       THEN Apply([Cur EXCEPT !.callers[c] = Parked("Release", 0),
                              !.sendq = Append(@, c)],
                  Call("Release", <<>>, cx, "parked"))
       ELSE \E k \in ReleaseReady(cx) :
               IF k = "buf"
               THEN Apply(ChanSend(ReleaseOk(Cur)), Call("Release", <<>>, cx, "nil"))
               ELSE Apply(Cur, Call("Release", <<>>, cx, k))
    /\ UNCHANGED <<newErr, maxCapacity, length, fired, target, in, out,
                   mgrRecv, capSendq>>

----------------------------------------------------------------------------
\* SetCapacity

\* Faulty variant: the check c < 0 is missing.
CapacityInvalidNoNegative(v) == v > maxCapacity

CapacityInvalid(v) == v > maxCapacity \/ v < 0

\* Faulty variant: t.cap has a buffer, so a send proceeds without a manager
\* waiting to receive.
CapSendReadyBuffered == mgr \in {"select", "parked"}

\* Faulty variant: the manager's select receives from t.cap only while it
\* offers neither an insert nor a removal.
CapSendReadyWhenSteady == mgr = "parked" /\ in = "nil" /\ out = "nil"

\* t.cap is unbuffered: a send can proceed only when the manager is parked
\* in its select, where it always receives from t.cap.
CapSendReady == mgr = "parked"

\* Faulty variant: the select has no case <-t.ctx.Done().
SetCapacityReadyNoLifecycle(cx) ==
    (IF cx THEN {"ctx"} ELSE {})
    \cup (IF CapSendReady THEN {"cap"} ELSE {})

SetCapacityReady(cx) ==
    (IF cx THEN {"ctx"} ELSE {})
    \cup (IF fired THEN {"closed"} ELSE {})
    \cup (IF CapSendReady THEN {"cap"} ELSE {})

SetCapacity(c, v, cx) ==
    /\ ~newErr
    /\ callers[c].st = "idle"
    /\ IF CapacityInvalid(v)
       THEN /\ ev' = [call |-> Call("SetCapacity", <<v>>, cx, "invalid"), rets |-> NoRets]
            /\ UNCHANGED <<callers, mgr, mgrCase, mgrRecv, capSendq, bufRecvq,
                           bufSendq, snap>>
       ELSE IF SetCapacityReady(cx) = {}
       THEN /\ callers' = [callers EXCEPT ![c] = Parked("SetCapacity", v)]
            /\ capSendq' = Append(capSendq, c)
            /\ ev' = [call |-> Call("SetCapacity", <<v>>, cx, "parked"), rets |-> NoRets]
            /\ UNCHANGED <<mgr, mgrCase, mgrRecv, bufRecvq, bufSendq, snap>>
       ELSE \E k \in SetCapacityReady(cx) :
               /\ ev' = [call |-> Call("SetCapacity", <<v>>, cx, IF k = "cap" THEN "nil" ELSE k),
                         rets |-> NoRets]
               /\ IF k = "cap"
                  THEN /\ mgr' = "woken"
                       /\ mgrCase' = "cap"
                       /\ mgrRecv' = v
                       /\ bufRecvq' = Remove(bufRecvq, Mgr)
                       /\ bufSendq' = Remove(bufSendq, Mgr)
                       /\ snap' = Accepted(v, length, buf, checkedOut)
                       /\ UNCHANGED <<callers, capSendq>>
                  ELSE UNCHANGED <<callers, mgr, mgrCase, mgrRecv, capSendq,
                                   bufRecvq, bufSendq, snap>>
    /\ UNCHANGED <<newErr, maxCapacity, buf, length, fired, target, in, out,
                   checkedOut>>

----------------------------------------------------------------------------
\* A parked call is woken by its own context

CancelCaller(c) ==
    /\ callers[c].st = "parked"
    /\ callers' = [callers EXCEPT ![c] = Idle]
    /\ ev' = [call |-> NoCall, rets |-> [NoRets EXCEPT ![c] = Woken(callers[c].op, "ctx")]]
    /\ bufRecvq' = Remove(bufRecvq, c)
    /\ bufSendq' = Remove(bufSendq, c)
    /\ capSendq' = Remove(capSendq, c)
    /\ UNCHANGED <<newErr, maxCapacity, buf, length, fired, target, in, out,
                   mgr, mgrCase, mgrRecv, checkedOut, snap>>

----------------------------------------------------------------------------
\* The lifecycle context of the bucket is cancelled: every goroutine parked
\* in a select is woken with its <-t.ctx.Done() case.

Fire ==
    /\ ~newErr
    /\ ~fired
    /\ fired' = TRUE
    /\ callers' = [c \in Callers |-> Idle]
    /\ ev' = [call |-> NoCall,
              rets |-> [c \in Callers |->
                          IF callers[c].st = "parked"
                          THEN Woken(callers[c].op, "closed")
                          ELSE NoRets[c]]]
    /\ bufRecvq' = <<>>
    /\ bufSendq' = <<>>
    /\ capSendq' = <<>>
    /\ IF mgr = "parked"
       THEN mgr' = "woken" /\ mgrCase' = "done"
       ELSE UNCHANGED <<mgr, mgrCase>>
    /\ UNCHANGED <<newErr, maxCapacity, buf, length, target, in, out,
                   mgrRecv, checkedOut, snap>>

----------------------------------------------------------------------------
\* manager

\* Faulty variants: the counter moves by two.
IncrByTwo(len) == len + 2

DecrByTwo(len) == len - 2

\* t.length++ and t.length--
Incr(len) == len + 1

Decr(len) == len - 1

\* Faulty variant: the manager keeps inserting when target = t.length.
OfferGrowsAtTarget(tg, len) ==
    IF tg >= len THEN [in |-> "buf", out |-> "nil"]
    ELSE [in |-> "nil", out |-> "buf"]

\* Faulty variant: the manager inserts, instead of removing, when target < t.length.
OfferInsertsOnShrink(tg, len) ==
    IF tg # len THEN [in |-> "buf", out |-> "nil"]
    ELSE [in |-> "nil", out |-> "nil"]

\* Faulty variant: the branch target < t.length is missing.
OfferNeverShrinks(tg, len) ==
    IF tg > len THEN [in |-> "buf", out |-> "nil"]
    ELSE [in |-> "nil", out |-> "nil"]

\* Faulty variant: the branch target < t.length does not reset in.
OfferKeepsIn(tg, len) ==
    IF tg > len THEN [in |-> "buf", out |-> "nil"]
    ELSE IF tg < len THEN [in |-> in, out |-> "buf"]
    ELSE [in |-> "nil", out |-> "nil"]

\* The if/else chain that ends each loop iteration.
Offer(tg, len) ==
    IF tg > len THEN [in |-> "buf", out |-> "nil"]
    ELSE IF tg < len THEN [in |-> "nil", out |-> "buf"]
    ELSE [in |-> "nil", out |-> "nil"]

Reoffer(tg, len) ==
    /\ in' = Offer(tg, len).in
    /\ out' = Offer(tg, len).out

\* case <-t.ctx.Done(): return
ManagerDone ==
    /\ mgr = "select"
    /\ fired
    /\ mgr' = "exit"
    /\ ev' = NoEv
    /\ UNCHANGED <<newErr, maxCapacity, buf, length, fired, target, in, out,
                   mgrCase, mgrRecv, bufRecvq, bufSendq, capSendq, callers,
                   checkedOut, snap>>

\* case in <- struct{}{}: t.length++
ManagerIn ==
    /\ mgr = "select"
    /\ in = "buf"
    /\ BufSendReady
    /\ Apply(ChanSend(Cur), NoCall)
    /\ length' = Incr(length)
    /\ Reoffer(target, length')
    /\ UNCHANGED <<newErr, maxCapacity, fired, target, mgrRecv, capSendq>>

\* Faulty variant: the manager counts a removal that found no marker.
ManagerOutOptimistic ==
    /\ mgr = "select"
    /\ out = "buf"
    /\ IF BufRecvReady
       THEN Apply(ChanRecv(Cur), NoCall)
       ELSE Apply(Cur, NoCall)
    /\ length' = Decr(length)
    /\ Reoffer(target, length')
    /\ UNCHANGED <<newErr, maxCapacity, fired, target, mgrRecv, capSendq>>

\* case <-out: t.length--
ManagerOut ==
    /\ mgr = "select"
    /\ out = "buf"
    /\ BufRecvReady
    /\ Apply(ChanRecv(Cur), NoCall)
    /\ length' = Decr(length)
    /\ Reoffer(target, length')
    /\ UNCHANGED <<newErr, maxCapacity, fired, target, mgrRecv, capSendq>>

\* case target = <-t.cap, taken from the first parked SetCapacity
ManagerCap ==
    /\ mgr = "select"
    /\ capSendq # <<>>
    /\ LET s == Head(capSendq)
           v == callers[s].arg
       IN  /\ target' = v
           /\ capSendq' = Tail(capSendq)
           /\ callers' = [callers EXCEPT ![s] = Idle]
           /\ ev' = [call |-> NoCall,
                     rets |-> [NoRets EXCEPT ![s] = Woken("SetCapacity", "nil")]]
           /\ snap' = Accepted(v, length, buf, checkedOut)
           /\ Reoffer(v, length)
    /\ UNCHANGED <<newErr, maxCapacity, buf, length, fired, mgr, mgrCase,
                   mgrRecv, bufRecvq, bufSendq, checkedOut>>

\* No case of the select is ready: the manager parks on every channel of
\* its select.
ManagerPark ==
    /\ mgr = "select"
    /\ ~fired
    /\ ~(in = "buf" /\ BufSendReady)
    /\ ~(out = "buf" /\ BufRecvReady)
    /\ capSendq = <<>>
    /\ mgr' = "parked"
    /\ ev' = NoEv
    /\ bufSendq' = IF in = "buf" THEN Append(bufSendq, Mgr) ELSE bufSendq
    /\ bufRecvq' = IF out = "buf" THEN Append(bufRecvq, Mgr) ELSE bufRecvq
    /\ UNCHANGED <<newErr, maxCapacity, buf, length, fired, target, in, out,
                   mgrCase, mgrRecv, capSendq, callers, checkedOut, snap>>

\* A woken manager runs the body of the case it was woken with and the
\* if/else chain.
ManagerResume ==
    /\ mgr = "woken"
    /\ mgrCase' = "none"
    /\ mgrRecv' = 0
    /\ ev' = NoEv
    /\ IF mgrCase = "done"
       THEN /\ mgr' = "exit"
            /\ UNCHANGED <<length, target, in, out>>
       ELSE /\ mgr' = "select"
            /\ length' = CASE mgrCase = "in" -> Incr(length)
                           [] mgrCase = "out" -> Decr(length)
                           [] OTHER -> length
            /\ target' = IF mgrCase = "cap" THEN mgrRecv ELSE target
            /\ Reoffer(target', length')
    /\ UNCHANGED <<newErr, maxCapacity, buf, fired, bufRecvq, bufSendq,
                   capSendq, callers, checkedOut, snap>>

----------------------------------------------------------------------------
\* The specification

Next ==
    \/ \E c \in Callers, cx \in BOOLEAN : Take(c, cx)
    \/ \E c \in Callers, cx \in BOOLEAN : Release(c, cx)
    \/ \E c \in Callers, v \in -1..(MaxCap + 1), cx \in BOOLEAN : SetCapacity(c, v, cx)
    \/ \E c \in Callers : CancelCaller(c)
    \/ Fire
    \/ ManagerDone
    \/ ManagerIn
    \/ ManagerOut
    \/ ManagerCap
    \/ ManagerPark
    \/ ManagerResume

Spec == Init /\ [][Next]_vars

\* The steps of the manager goroutine.
ManagerStep ==
    \/ ManagerDone
    \/ ManagerIn
    \/ ManagerOut
    \/ ManagerCap
    \/ ManagerPark
    \/ ManagerResume

\* The Go scheduler runs a goroutine that is runnable: the manager is not
\* starved. Nothing is assumed of the callers.
LiveSpec == Init /\ [][Next]_vars /\ WF_vars(ManagerStep)

----------------------------------------------------------------------------
\* Properties

\* The manager is at its select, between two loop iterations.
Quiescent == mgr \in {"select", "parked"}

\* The manager has reached the last accepted target.
Converged == Quiescent /\ length = target /\ target = snap.c

\* The last step was a call of o by a caller whose context was not cancelled.
LiveCall(o) == ev.call.op = o /\ ~ev.call.cx

\* C1: in every reachable state the manager's counter satisfies
\* 0 <= length <= maxCapacity.
C1_LengthInRange == 0 <= length /\ length <= maxCapacity

\* C1 witness: the manager has grown the bucket from below to maxCapacity
\* after an accepted SetCapacity, and the lifecycle has ended.
C1_Witness ==
    /\ snap.accepted
    /\ snap.L < maxCapacity
    /\ length = maxCapacity
    /\ mgr = "exit"

\* C2: in every reachable state the number of tokens in circulation, the
\* markers in the buffer plus the tokens checked out (successful Takes not
\* yet matched by a successful Release), is at least 0 and at most
\* maxCapacity.
C2_CirculationInRange == 0 <= buf + checkedOut /\ buf + checkedOut <= maxCapacity

\* C2 witness: after a resize was accepted, tokens are checked out and in
\* the buffer and the circulation is maxCapacity.
C2_Witness ==
    /\ snap.accepted
    /\ snap.L # snap.c
    /\ checkedOut > 0
    /\ buf > 0
    /\ buf + checkedOut = maxCapacity

\* C3: NewToken(ctx, maxCap, len) returns an error exactly when maxCap <= 0
\* or len < 0 or len > maxCap; then no bucket exists and no manager runs;
\* otherwise it returns a bucket of maxCap slots holding len markers, with
\* the manager started.
C3_NewTokenValidation ==
    ev.call.op = "NewToken" =>
        LET maxCap == ev.call.args[1]
            len == ev.call.args[2]
            bad == maxCap <= 0 \/ len < 0 \/ len > maxCap
        IN  /\ newErr <=> bad
            /\ (ev.call.ret = "invalid") <=> bad
            /\ bad => mgr = "none"
            /\ ~bad => /\ ev.call.ret = "nil"
                       /\ mgr = "select"
                       /\ maxCapacity = maxCap
                       /\ buf = len
                       /\ length = len

\* C3 witness: NewToken has failed for a positive maxCap, because len
\* exceeds it.
C3_Witness ==
    /\ ev.call.op = "NewToken"
    /\ ev.call.args[1] > 0
    /\ ev.call.args[2] > ev.call.args[1]
    /\ newErr

\* No Release has succeeded and no SetCapacity has been accepted since
\* NewToken returned; snap.L is then the initial length.
Pristine == ~newErr /\ snap.clean /\ ~snap.accepted

\* C4: as long as no Release has succeeded and no SetCapacity was accepted,
\* the successful Takes and the markers left add up to the initial length,
\* so exactly len Takes succeed; a Take made once len have succeeded does
\* not succeed: with a live context and a live lifecycle it parks, and a
\* parked Take is only woken by a cancellation.
C4_InitialTakes ==
    Pristine =>
        /\ 0 <= checkedOut /\ checkedOut <= snap.L
        /\ buf = snap.L - checkedOut
        /\ ev.call.op = "Take" =>
              /\ ev.call.ret = "nil" => checkedOut <= snap.L
              /\ checkedOut = snap.L /\ buf = 0 /\ bufSendq = <<>> /\ ~ev.call.cx /\ ~fired
                    => ev.call.ret \in {"nil", "parked"}
              /\ ev.call.ret = "parked" => checkedOut = snap.L
        /\ \A c \in Callers :
              ev.rets[c].op = "Take" => ev.rets[c].ret \in {"ctx", "closed"}

\* C4 witness: a bucket built with at least two tokens has given out all of
\* them and the next Take has parked.
C4_Witness ==
    /\ Pristine
    /\ snap.L >= 2
    /\ checkedOut = snap.L
    /\ LiveCall("Take")
    /\ ev.call.ret = "parked"

\* C5: SetCapacity(ctx, c) returns the validation error exactly when c < 0
\* or c > maxCapacity, whether or not the caller's context is cancelled and
\* the lifecycle has ended; such a call offers nothing to the manager and
\* leaves target, length, the buffer and every wait queue unchanged.
C5_SetCapacityValidation ==
    [][ev'.call.op = "SetCapacity" =>
          LET v == ev'.call.args[1]
          IN  /\ (ev'.call.ret = "invalid") <=> (v < 0 \/ v > maxCapacity)
              /\ ev'.call.ret = "invalid" =>
                    UNCHANGED <<target, length, buf, in, out, mgr, mgrCase, mgrRecv,
                                bufRecvq, bufSendq, capSendq, callers, snap>>]_vars

\* C5 witness: a SetCapacity with a cancelled context, made after the
\* lifecycle ended, has returned the validation error.
C5_Witness ==
    /\ ev.call.op = "SetCapacity"
    /\ ev.call.ret = "invalid"
    /\ ev.call.cx
    /\ fired

\* An accepted SetCapacity(c) with c above the length L at acceptance has
\* converged, and no Release has succeeded since it was accepted.
GrowConverged == snap.accepted /\ snap.clean /\ snap.c > snap.L /\ Converged

\* C6: once an accepted SetCapacity(c) with c > L has converged, with no
\* Release and no other SetCapacity since, the Takes that succeeded since
\* the acceptance plus the markers left equal the markers available at
\* acceptance plus c - L: exactly c - L further Takes succeed, and a Take
\* parks only when all of them have succeeded.
C6_GrowAddsTokens ==
    GrowConverged =>
        LET quota == snap.avail + (snap.c - snap.L)
            taken == checkedOut - snap.co
        IN  /\ 0 <= taken /\ taken <= quota
            /\ buf = quota - taken
            /\ ev.call.op = "Take" /\ ev.call.ret = "parked" => taken = quota

\* C6 witness: all tokens were checked out, the capacity was raised, the
\* added tokens were taken and the next Take has parked.
C6_Witness ==
    /\ GrowConverged
    /\ snap.co >= 1
    /\ snap.avail = 0
    /\ checkedOut - snap.co = snap.c - snap.L
    /\ LiveCall("Take")
    /\ ev.call.ret = "parked"
    /\ ~fired

\* An accepted SetCapacity(c) with c below the length L at acceptance has
\* converged.
ShrinkConverged == snap.accepted /\ snap.c < snap.L /\ Converged

AcceptEv ==
    \/ ev.call.op = "SetCapacity" /\ ev.call.ret = "nil"
    \/ \E c \in Callers : ev.rets[c] = Woken("SetCapacity", "nil")

\* The target of the manager is the value of the last accepted SetCapacity
\* (the initial length before any); a manager woken by a SetCapacity holds
\* the value and assigns it when it resumes.
TargetIsLast ==
    ~newErr => IF mgr = "woken" /\ mgrCase = "cap"
               THEN mgrRecv = snap.c
               ELSE target = snap.c

\* C8 as stated: the target is always the value of the most recently
\* accepted SetCapacity, and if the lifecycle stays live, SetCapacity calls
\* stop being accepted and the callers keep returning the tokens they hold,
\* then length eventually equals the last accepted target and stays there.
C8_LastTargetHonoured ==
    /\ []TargetIsLast
    /\ ([]~fired /\ <>[]~AcceptEv /\ []<>(checkedOut <= 0))
          => <>[](length = snap.c)

\* C8 amended: the same, for callers that release only tokens they took
\* (never more successful Releases than successful Takes).
C8_LastTargetHonouredLawful ==
    /\ []TargetIsLast
    /\ ([]~fired /\ [](checkedOut >= 0) /\ <>[]~AcceptEv /\ []<>(checkedOut <= 0))
          => <>[](length = snap.c)

\* C8 witness: two SetCapacity calls with different capacities are in
\* flight together; the manager has just accepted the first, which is now
\* its target and not yet reached, and the second is still parked.
C8_Witness ==
    /\ ~fired
    /\ \E c \in Callers : ev.rets[c] = Woken("SetCapacity", "nil")
    /\ capSendq # <<>>
    /\ callers[Head(capSendq)].arg # snap.c
    /\ target = snap.c
    /\ length # target

C10_ClosedAfterFire ==
    /\ fired /\ (LiveCall("Take") \/ LiveCall("Release")) => ev.call.ret = "closed"
    /\ fired => \A c \in Callers :
                   ev.rets[c].op \in {"Take", "Release"} => ev.rets[c].ret = "closed"

\* The last step was a call of SetCapacity with a capacity that passes the
\* bounds check.
ValidSetCapacity ==
    /\ ev.call.op = "SetCapacity"
    /\ ev.call.args[1] >= 0
    /\ ev.call.args[1] <= maxCapacity

\* C11 as stated: a SetCapacity with a valid capacity and a caller context
\* that is already cancelled, made while the lifecycle is live and the
\* manager runs, returns the caller context's cause, never nil, and
\* delivers no target to the manager.
C11_CancelledSetCapacity ==
    [][(~fired' /\ ValidSetCapacity' /\ ev'.call.cx) =>
          /\ ev'.call.ret = "ctx"
          /\ UNCHANGED <<target, mgrRecv, mgrCase, snap, capSendq>>]_vars

\* The last step was a call that returned a cancellation cause, the
\* caller's or the lifecycle's.
FailedCall ==
    /\ ev.call.op \in {"Take", "Release", "SetCapacity"}
    /\ ev.call.ret \in {"ctx", "closed"}

\* The last step woke a parked call with a cancellation cause.
FailedWake == \E c \in Callers : ev.rets[c].ret \in {"ctx", "closed"}

\* C12: a step in which a Take, Release or SetCapacity returns a
\* cancellation cause, at the call or after having been parked, takes no
\* marker, adds none and delivers no target: the buffer, length, target, the
\* value in flight to the manager and the tokens checked out are unchanged,
\* and a call that fails without parking leaves every wait queue and the
\* manager as they were.
C12_FailedCallsChangeNothing ==
    [][/\ (FailedCall' \/ FailedWake') =>
             UNCHANGED <<buf, length, target, mgrRecv, checkedOut, snap>>
       /\ FailedCall' =>
             UNCHANGED <<bufRecvq, bufSendq, capSendq, callers, mgr, mgrCase>>]_vars

\* C12 witness: markers are in the buffer during an unfinished resize and a
\* Take with a cancelled context has returned the context's cause.
C12_Witness ==
    /\ ev.call.op = "Take"
    /\ ev.call.ret = "ctx"
    /\ buf > 0
    /\ snap.accepted
    /\ length # snap.c

\* C13: SetCapacity(c) returns nil exactly at the step in which the manager
\* receives c: either the manager is parked in its select and is handed c,
\* which it assigns to target when it resumes, or the call is parked and the
\* manager's select receives c and sets target = c. Nothing else delivers a
\* target. The step leaves length alone, so the call can have returned while
\* length differs from c, and length changes only in later steps of the
\* manager, in which no call is made.
C13_NilAtReceipt ==
    [][/\ (ev'.call.op = "SetCapacity" /\ ev'.call.ret = "nil") =>
             /\ mgr = "parked" /\ mgr' = "woken" /\ mgrCase' = "cap"
             /\ mgrRecv' = ev'.call.args[1]
             /\ snap'.c = ev'.call.args[1]
             /\ length' = length
       /\ \A c \in Callers :
             ev'.rets[c] = Woken("SetCapacity", "nil") =>
                /\ mgr = "select" /\ mgr' = "select"
                /\ capSendq # <<>> /\ Head(capSendq) = c
                /\ target' = callers[c].arg
                /\ snap'.c = callers[c].arg
                /\ length' = length
       /\ (mgr # "woken" /\ mgr' = "woken" /\ mgrCase' = "cap") =>
             (ev'.call.op = "SetCapacity" /\ ev'.call.ret = "nil")
       /\ target' # target =>
             \/ mgr = "woken" /\ mgrCase = "cap" /\ target' = mgrRecv
             \/ \E c \in Callers : ev'.rets[c] = Woken("SetCapacity", "nil")
       /\ length' # length =>
             /\ ev'.call = NoCall
             /\ mgr \in {"select", "woken"}
             /\ \A c \in Callers : ev'.rets[c].op # "SetCapacity"]_vars

\* C13 witness: a SetCapacity(c) has just returned nil while length differs
\* from c by two.
C13_Witness ==
    /\ ev.call.op = "SetCapacity"
    /\ ev.call.ret = "nil"
    /\ ~ev.call.cx
    /\ mgrRecv = ev.call.args[1]
    /\ (length - mgrRecv >= 2 \/ mgrRecv - length >= 2)

\* The manager is steady: target = length, it offers neither an insert nor
\* a removal, and it holds no new target it has yet to assign.
Steady ==
    /\ ~newErr
    /\ target = length
    /\ in = "nil"
    /\ out = "nil"
    /\ ~(mgr = "woken" /\ mgrCase = "cap")

\* C14: while the manager is steady and no SetCapacity is accepted, every
\* step keeps the manager steady and keeps the sum of the markers in the
\* buffer and the tokens checked out (successful Takes minus successful
\* Releases): a successful Take lowers the buffer by one, a successful
\* Release raises it by one, nothing else touches it. Hence after any number
\* of matched pairs, however interleaved, when the checked-out count is back
\* at its value before the sequence, so is the buffer.
C14_PairsPreserveBuffer ==
    [][(Steady /\ ~AcceptEv') =>
          /\ Steady'
          /\ buf' + checkedOut' = buf + checkedOut
          /\ (checkedOut' = checkedOut => buf' = buf)]_vars

\* C14 witness: after a resize has converged, with the manager steady, a
\* Release has returned nil and every token that was taken is back: the
\* buffer holds length markers again.
C14_Witness ==
    /\ Steady
    /\ snap.accepted
    /\ ~snap.clean
    /\ ev.call.op = "Release"
    /\ ev.call.ret = "nil"
    /\ checkedOut = 0
    /\ length >= 1
    /\ buf = length

\* The number of calls of o that return nil in the step to the primed state.
Succeeded(o) ==
    (IF ev'.call.op = o /\ ev'.call.ret = "nil" THEN 1 ELSE 0)
    + Cardinality({c \in Callers : ev'.rets[c] = Woken(o, "nil")})

\* The number of markers the manager's insert (removal) case lands in the
\* step: its select sends (receives), or it is parked and a receiver takes
\* its marker (a sender hands it one).
MgrInserted ==
    IF \/ mgr = "select" /\ length' = length + 1
       \/ mgr = "parked" /\ mgr' = "woken" /\ mgrCase' = "in"
    THEN 1 ELSE 0

MgrRemoved ==
    IF \/ mgr = "select" /\ length' = length - 1
       \/ mgr = "parked" /\ mgr' = "woken" /\ mgrCase' = "out"
    THEN 1 ELSE 0

\* C15: the buffer holds between 0 and maxCapacity markers in every
\* reachable state, and in every step it changes by exactly the markers
\* added (one per Release that returns nil, one per manager insert) minus
\* the markers removed (one per Take that returns nil, one per manager
\* removal). A Take called on an empty buffer does not return nil and a
\* Release called on a full buffer does not return nil: they park, and a
\* parked Take (Release) returns nil only in a step in which another
\* goroutine adds (removes) a marker, which it takes (whose slot it fills).
C15_OneMarkerPerCall ==
    /\ [](0 <= buf /\ buf <= maxCapacity)
    /\ [][/\ buf' - buf = Succeeded("Release") + MgrInserted
                          - Succeeded("Take") - MgrRemoved
          /\ (ev'.call.op = "Take" /\ ev'.call.ret = "nil") => buf > 0
          /\ (ev'.call.op = "Release" /\ ev'.call.ret = "nil") => buf < maxCapacity
          /\ (ev'.call.op = "Take" /\ ~ev'.call.cx /\ ~fired /\ buf = 0) =>
                ev'.call.ret = "parked"
          /\ (ev'.call.op = "Release" /\ ~ev'.call.cx /\ ~fired /\ buf = maxCapacity) =>
                ev'.call.ret = "parked"
          /\ \A c \in Callers :
                /\ ev'.rets[c] = Woken("Take", "nil") =>
                      /\ buf = 0
                      /\ Succeeded("Release") + MgrInserted = 1
                /\ ev'.rets[c] = Woken("Release", "nil") =>
                      /\ buf = maxCapacity
                      /\ Succeeded("Take") + MgrRemoved = 1]_vars

\* C15 witness: both callers are at work on a full buffer: a Release was
\* parked on it, and a Take has just removed a marker and so let the parked
\* Release return nil.
C15_Witness ==
    /\ ev.call.op = "Take"
    /\ ev.call.ret = "nil"
    /\ \E c \in Callers : ev.rets[c] = Woken("Release", "nil")
    /\ buf = maxCapacity
    /\ maxCapacity >= 2

\* The manager goroutine is in a wait queue of t.buf.
MgrQueued(q) == \E i \in 1..Len(q) : q[i] = Mgr

\* C16: whenever the manager is at its select, about to choose or parked,
\* it offers an insert iff target > length and a removal iff
\* target < length, hence neither when target = length and never both; a
\* parked manager waits on t.buf exactly as it offers. Each loop iteration
\* lands at most one marker operation and changes length by exactly +1 for
\* an insert and -1 for a removal, never otherwise, after which the manager
\* is back at its select.
C16_OfferFollowsTarget ==
    /\ [](Quiescent =>
            /\ (in = "buf") <=> (target > length)
            /\ (out = "buf") <=> (target < length)
            /\ ~(in = "buf" /\ out = "buf"))
    /\ [](/\ MgrQueued(bufSendq) <=> (mgr = "parked" /\ in = "buf")
          /\ MgrQueued(bufRecvq) <=> (mgr = "parked" /\ out = "buf"))
    /\ [][/\ MgrInserted + MgrRemoved <= 1
          /\ length' # length =>
                /\ mgr' = "select"
                /\ \/ /\ length' = length + 1
                      /\ in = "buf"
                      /\ \/ mgr = "select" /\ MgrInserted = 1
                         \/ mgr = "woken" /\ mgrCase = "in"
                   \/ /\ length' = length - 1
                      /\ out = "buf"
                      /\ \/ mgr = "select" /\ MgrRemoved = 1
                         \/ mgr = "woken" /\ mgrCase = "out"
          /\ (mgr = "woken" /\ mgr' # "woken" /\ mgrCase = "in") => length' = length + 1
          /\ (mgr = "woken" /\ mgr' # "woken" /\ mgrCase = "out") => length' = length - 1
          /\ (mgr = "select" /\ mgr' = "select" /\ length' = length) =>
                MgrInserted + MgrRemoved = 0]_vars

\* C16 witness: half way through a grow by two, the manager is back at its
\* select after one insert and offers the next insert.
C16_Witness ==
    /\ mgr = "select"
    /\ snap.accepted
    /\ snap.clean
    /\ in = "buf"
    /\ out = "nil"
    /\ length = snap.L + 1
    /\ target = snap.L + 2

\* C17: a step in which Take or Release is called, whether the call returns
\* nil, parks or fails, leaves length and target unchanged, and so does a
\* step that wakes a parked call with a cancellation cause. length changes
\* only in a step of the manager, in which no call is made; target changes
\* only by an accepted SetCapacity, to the accepted value. As long as no
\* SetCapacity has been accepted, length and target equal the initial
\* length.
C17_CallsLeaveLength ==
    /\ []((~newErr /\ ~snap.accepted) => (length = snap.c /\ target = snap.c))
    /\ [][/\ ev'.call.op \in {"Take", "Release"} => UNCHANGED <<length, target>>
          /\ (ev'.call.op = "none" /\ FailedWake') => UNCHANGED <<length, target>>
          /\ length' # length =>
                /\ ev'.call = NoCall
                /\ mgr \in {"select", "woken"}
                /\ mgr' = "select"
          /\ target' # target =>
                /\ snap'.accepted
                /\ target' = snap'.c
                /\ \/ mgr = "woken" /\ mgrCase = "cap"
                   \/ \E c \in Callers : ev'.rets[c] = Woken("SetCapacity", "nil")]_vars

\* C17 witness: no SetCapacity was ever accepted, a Release has succeeded
\* and a Take has just checked out the last of two tokens; length is still
\* the initial length.
C17_Witness ==
    /\ ~newErr
    /\ ~snap.accepted
    /\ ~snap.clean
    /\ ev.call.op = "Take"
    /\ ev.call.ret = "nil"
    /\ length = 2
    /\ checkedOut = length
    /\ buf = 0

\* C18 as stated: once the lifecycle signal has fired the manager performs
\* no further insert, no further removal and accepts no further target, so
\* length and target stay as they were when the signal fired. The claim is
\* read in the manager's favour: an iteration whose select case was chosen
\* before the signal fired (a woken manager) may still run its case body.
C18_FrozenAfterFire ==
    [][(fired /\ mgr # "woken") =>
          /\ length' = length
          /\ target' = target
          /\ MgrInserted = 0
          /\ MgrRemoved = 0]_vars

\* A shrink is stalled: the manager is at its select with target < length
\* and the buffer is empty.
ShrinkStalled == Quiescent /\ target < length /\ buf = 0

\* C19: while a shrink is stalled no step changes length. length is
\* lowered only by one, and only for a marker the manager has removed: its
\* select receives from a buffer that holds one, or it was parked on the
\* empty buffer and a Release handed it the marker, which that Release
\* reports as a success and which never reaches the buffer.
C19_NoDecrementOnEmpty ==
    [][/\ ShrinkStalled => length' = length
       /\ length' < length =>
             /\ length' = length - 1
             /\ \/ mgr = "select" /\ out = "buf" /\ buf > 0 /\ MgrRemoved = 1
                                  /\ buf' = buf - 1 + Succeeded("Release")
                \/ mgr = "woken" /\ mgrCase = "out"
       /\ (mgr = "parked" /\ mgr' = "woken" /\ mgrCase' = "out") =>
             /\ buf = 0 /\ buf' = 0
             /\ Succeeded("Release") = 1
             /\ checkedOut' = checkedOut - 1
             /\ length' = length]_vars

\* C19 witness: a shrink was accepted with every token checked out and
\* stalled on the empty buffer; a Release has just handed its token to the
\* parked manager, which has yet to lower length.
C19_Witness ==
    /\ snap.accepted
    /\ snap.avail = 0
    /\ snap.co = snap.L
    /\ mgr = "woken"
    /\ mgrCase = "out"
    /\ ev.call.op = "Release"
    /\ ev.call.ret = "nil"
    /\ buf = 0
    /\ target < length
    /\ checkedOut = length - 1

\* Caller c is parked in SetCapacity, sending on t.cap.
ParkedSet(c) == callers[c].st = "parked" /\ callers[c].op = "SetCapacity"

\* The last step ended the parked SetCapacity of caller c: the manager
\* received its value and it returned nil, or a cancellation woke it.
SetReturned(c) == ev.rets[c].op = "SetCapacity"

\* C20: while the lifecycle is live the manager's select always receives
\* from t.cap, whatever it offers on t.buf. A SetCapacity with a valid
\* capacity and a live context returns nil at once when the manager is
\* parked in its select, also when it is parked on an insert into a full
\* buffer or a removal from an empty one, and parks only when the manager
\* is not parked; no SetCapacity stays parked while the manager is parked;
\* a parked SetCapacity is ended only by the manager receiving its value,
\* which becomes the target, or by a cancellation; and under fair
\* scheduling of the manager every parked SetCapacity is eventually ended.
C20_ResizeNeverBlocked ==
    /\ [](mgr = "parked" => capSendq = <<>>)
    /\ []((ValidSetCapacity /\ ~ev.call.cx /\ ~fired) =>
            \/ ev.call.ret = "nil" /\ mgr = "woken" /\ mgrCase = "cap"
            \/ ev.call.ret = "parked" /\ mgr \in {"select", "woken"})
    /\ [](\A c \in Callers :
            (SetReturned(c) /\ ~fired /\ ev.rets[c].ret # "ctx") =>
                /\ ev.rets[c].ret = "nil"
                /\ mgr = "select"
                /\ snap.accepted
                /\ target = snap.c)
    /\ \A c \in Callers : ParkedSet(c) ~> SetReturned(c)

\* C20 witness: a shrink is stalled on an empty buffer with the manager
\* parked, and a SetCapacity with a larger capacity has just returned nil.
C20_Witness ==
    /\ ~fired
    /\ ev.call.op = "SetCapacity"
    /\ ev.call.ret = "nil"
    /\ ~ev.call.cx
    /\ mgr = "woken"
    /\ mgrCase = "cap"
    /\ out = "buf"
    /\ buf = 0
    /\ target < length
    /\ mgrRecv > target

\* C21: whenever the manager is at its select, about to choose or parked,
\* the markers in the buffer are length minus the tokens checked out
\* (successful Takes minus successful Releases). Hence, while no more
\* tokens have been released than taken, the buffer holds at most length
\* markers, and whenever target > length the buffer has room: the insert
\* the manager offers is ready and the manager is not parked on it.
C21_TokenConservation ==
    Quiescent =>
        /\ buf = length - checkedOut
        /\ checkedOut >= 0 =>
              /\ buf <= length
              /\ target > length =>
                    /\ buf < maxCapacity
                    /\ in = "buf"
                    /\ BufSendReady
                    /\ mgr = "select"
                    /\ ~MgrQueued(bufSendq)

\* C21 witness: after a Release and an accepted grow, with every token
\* checked out and the buffer empty, the manager is at its select offering
\* the next insert.
C21_Witness ==
    /\ mgr = "select"
    /\ snap.accepted
    /\ ~snap.clean
    /\ target > length
    /\ length >= 1
    /\ checkedOut = length
    /\ buf = 0
    /\ in = "buf"

====
